---- MODULE Spec2Model ----
(***************************************************************************)
(* Model of handleSubmit and its stream loop in src/src/App.tsx.  The file *)
(* holds two App components: the first at lines 80-693 (app = 1) and the   *)
(* second at lines 784-1573 (app = 2).  Text is modelled as a sequence of  *)
(* one-character strings, a response body as a sequence of bytes; an ASCII *)
(* byte is written as its character, the two bytes of the UTF-8 encoding   *)
(* of U+00E9 are written "C3" and "A9".                                    *)
(***************************************************************************)
EXTENDS Integers, Sequences, FiniteSets, TLC

\* Bound of the model.
MaxChunks == 2      \* chunks that reader.read() cuts a response body into

----------------------------------------------------------------------------
\* Text constants of the stream protocol.

NL == "\n"
MARKER == <<"d", "a", "t", "a", ":", " ">>
SOURCES_OPEN == <<"[", "S", "O", "U", "R", "C", "E", "S", "]">>
SOURCES_CLOSE == <<"[", "/", "S", "O", "U", "R", "C", "E", "S", "]">>
DONE == <<"[", "D", "O", "N", "E", "]">>
ERROR_OPEN == <<"[", "E", "R", "R", "O", "R", "]">>
ERROR_CLOSE == <<"[", "/", "E", "R", "R", "O", "R", "]">>

\* Values of the error state.  The messages of the source are Chinese
\* literals; each is named here by a tag.
NoDetail == <<>>
ErrNull == [kind |-> "null", detail |-> NoDetail]
ErrChatRequest(d) == [kind |-> "chat request failed", detail |-> d]
ErrUnknown == [kind |-> "unknown error while sending", detail |-> NoDetail]
ErrRetryLater == [kind |-> "chat request failed, retry later", detail |-> NoDetail]
ErrUpdateFailed == [kind |-> "conversation update failed", detail |-> NoDetail]
ErrSaveFailed == [kind |-> "saving history failed", detail |-> NoDetail]

\* A message without a sources field has sources = Undefined.
Undefined == <<-1>>
NoChat == 0
Msg(r, c, s) == [role |-> r, content |-> c, sources |-> s]

----------------------------------------------------------------------------
\* String methods of JavaScript, on sequences of characters.

StartsWith(s, p) == Len(s) >= Len(p) /\ SubSeq(s, 1, Len(p)) = p

EndsWith(s, p) == Len(s) >= Len(p) /\ SubSeq(s, Len(s) - Len(p) + 1, Len(s)) = p

Includes(s, p) == \E i \in 0..(Len(s) - Len(p)) : SubSeq(s, i + 1, i + Len(p)) = p

\* s.slice(n), n >= 0
Slice(s, n) == SubSeq(s, n + 1, Len(s))

\* s.slice(a, -b)
SliceInner(s, a, b) == SubSeq(s, a + 1, Len(s) - b)

Whitespace == {" ", "\t", "\r", "\n"}

RECURSIVE TrimLeft(_)
TrimLeft(s) == IF s # <<>> /\ Head(s) \in Whitespace THEN TrimLeft(Tail(s)) ELSE s

RECURSIVE TrimRight(_)
TrimRight(s) ==
  IF s # <<>> /\ s[Len(s)] \in Whitespace THEN TrimRight(SubSeq(s, 1, Len(s) - 1)) ELSE s

Trim(s) == TrimRight(TrimLeft(s))

\* s.replace(p, ''): the first occurrence of p is removed.
RECURSIVE ReplaceFirst(_, _)
ReplaceFirst(s, p) ==
  IF Len(s) < Len(p) THEN s
  ELSE IF StartsWith(s, p) THEN Slice(s, Len(p))
  ELSE <<Head(s)>> \o ReplaceFirst(Tail(s), p)

\* text.split('\n'); cur is the line being collected.
RECURSIVE SplitFrom(_, _)
SplitFrom(s, cur) ==
  IF s = <<>> THEN <<cur>>
  ELSE IF Head(s) = NL THEN <<cur>> \o SplitFrom(Tail(s), <<>>)
  ELSE SplitFrom(Tail(s), Append(cur, Head(s)))

Split(s) == SplitFrom(s, <<>>)

\* new TextDecoder().decode(value), called without {stream: true}: every call
\* decodes its chunk on its own and flushes, so an incomplete sequence at the
\* end of the chunk and a continuation byte at its start both become U+FFFD.
RECURSIVE Decode(_)
Decode(b) ==
  IF b = <<>> THEN <<>>
  ELSE IF Head(b) = "C3"
    THEN IF Len(b) >= 2 /\ b[2] = "A9"
           THEN <<"U+00E9">> \o Decode(Tail(Tail(b)))
           ELSE <<"U+FFFD">> \o Decode(Tail(b))
  ELSE IF Head(b) = "A9" THEN <<"U+FFFD">> \o Decode(Tail(b))
  ELSE <<Head(b)>> \o Decode(Tail(b))

\* JSON.parse on the texts the model feeds it: an array of the numbers 1 and
\* 2 parses to that sequence, any other text of the model is not JSON.
DigitVal(c) == IF c = "1" THEN 1 ELSE 2

RECURSIVE ParseElems(_)
ParseElems(s) ==
  IF Len(s) = 2 /\ s[1] \in {"1", "2"} /\ s[2] = "]"
    THEN [ok |-> TRUE, val |-> <<DigitVal(s[1])>>]
  ELSE IF Len(s) >= 3 /\ s[1] \in {"1", "2"} /\ s[2] = ","
    THEN LET r == ParseElems(SubSeq(s, 3, Len(s)))
         IN  [ok |-> r.ok, val |-> IF r.ok THEN <<DigitVal(s[1])>> \o r.val ELSE <<>>]
  ELSE [ok |-> FALSE, val |-> <<>>]

JSONParse(s) ==
  IF s = <<"[", "]">> THEN [ok |-> TRUE, val |-> <<>>]
  ELSE IF s # <<>> /\ Head(s) = "[" THEN ParseElems(Tail(s))
  ELSE [ok |-> FALSE, val |-> <<>>]

RECURSIVE Flatten(_)
Flatten(ss) == IF ss = <<>> THEN <<>> ELSE Head(ss) \o Flatten(Tail(ss))

IsPrefix(s, t) == Len(s) <= Len(t) /\ SubSeq(t, 1, Len(s)) = s

----------------------------------------------------------------------------
\* The body of "for (const line of lines)" of the stream loop.

\* A filter that forgot the test of the event marker.
IsSkipped_TrimOnly(line) == Trim(line) = <<>>

\* if (!line.trim() || !line.startsWith('data: ')) continue
IsSkipped(line) == Trim(line) = <<>> \/ ~StartsWith(line, MARKER)

\* const data = line.slice(5): first App.
Payload1(line) == Slice(line, 5)

\* const data = line.slice(6): second App.
Payload2(line) == Slice(line, 6)

Payload(a, line) == IF a = 1 THEN Payload1(line) ELSE Payload2(line)

\* data.startsWith('[SOURCES]') && data.endsWith('[/SOURCES]')
IsSourcesFrame(data) == StartsWith(data, SOURCES_OPEN) /\ EndsWith(data, SOURCES_CLOSE)

\* data.slice(9, -10)
SourcesJson(data) == SliceInner(data, 9, 10)

\* !data.includes('[SOURCES]') && !data.includes('[ERROR]') && data !== '[DONE]'
IsContent1(data) ==
  ~Includes(data, SOURCES_OPEN) /\ ~Includes(data, ERROR_OPEN) /\ data # DONE

\* The final else of the second App.
IsContent2(data) == ~IsSourcesFrame(data) /\ ~StartsWith(data, ERROR_OPEN) /\ data # DONE

\* The frames whose payload the loop appends to tempResponse.
IsContent(a, data) ==
  IF a = 1 THEN ~IsSourcesFrame(data) /\ data # DONE /\ IsContent1(data)
  ELSE IsContent2(data)

\* A loop that put each fragment in front of the buffer.
AppendContent_Prepend(temp, data) == data \o temp

\* A loop that kept only the latest fragment.
AppendContent_Overwrite(temp, data) == data

\* tempResponse += data
AppendContent(temp, data) == temp \o data

\* data.replace('[ERROR]', '').replace('[/ERROR]', '')
ErrorMsg(data) == ReplaceFirst(ReplaceFirst(data, ERROR_OPEN), ERROR_CLOSE)

LastIsAssistant(msgs) == msgs # <<>> /\ msgs[Len(msgs)].role = "assistant"

\* First App, [DONE]: lastMessage.content = tempResponse; lastMessage.sources = sources
SetDone1(prev, temp, srcs) ==
  IF LastIsAssistant(prev)
    THEN [prev EXCEPT ![Len(prev)] = [@ EXCEPT !.content = temp, !.sources = srcs]]
    ELSE prev

\* First App, content: lastMessage.content = tempResponse
SetContent1(prev, temp) ==
  IF LastIsAssistant(prev)
    THEN [prev EXCEPT ![Len(prev)] = [@ EXCEPT !.content = temp]]
    ELSE prev

\* Second App, [DONE]: the last element is replaced by a new assistant message.
SetDone2(prev, temp, srcs) ==
  IF Len(prev) - 1 >= 0
    THEN [prev EXCEPT ![Len(prev)] = Msg("assistant", temp, srcs)]
    ELSE prev

\* Second App, content: {...last, content: tempResponse}
SetContent2(prev, temp) ==
  IF Len(prev) - 1 >= 0
    THEN [prev EXCEPT ![Len(prev)] = [@ EXCEPT !.content = temp]]
    ELSE prev

\* The state the loop body works on: the locals tempResponse and sources, the
\* React state it sets, whether it left the for loop by break (brk) or by an
\* exception (threw), and two records kept for the properties: log, the
\* frames the body has processed, and srcWrites, the number of times it has
\* written the sources of the assistant message.
Frame1(st, line) ==
  LET data == Payload1(line) IN
  IF IsSourcesFrame(data)
    THEN LET r == JSONParse(SourcesJson(data))
         IN  [st EXCEPT !.sources = IF r.ok THEN r.val ELSE @]
  ELSE IF data = DONE
    THEN [st EXCEPT !.messages = SetDone1(@, st.temp, st.sources),
                    !.srcWrites = IF LastIsAssistant(st.messages) THEN @ + 1 ELSE @,
                    !.brk = TRUE]
  ELSE IF IsContent1(data)
    THEN LET t == AppendContent(st.temp, data)
         IN  [st EXCEPT !.temp = t, !.messages = SetContent1(@, t)]
  ELSE st

Frame2(st, line) ==
  LET data == Payload2(line) IN
  IF IsSourcesFrame(data)
    THEN LET r == JSONParse(SourcesJson(data))
         IN  IF r.ok THEN [st EXCEPT !.sources = r.val] ELSE [st EXCEPT !.threw = TRUE]
  ELSE IF StartsWith(data, ERROR_OPEN)
    THEN [st EXCEPT !.error = ErrChatRequest(ErrorMsg(data)), !.brk = TRUE]
  ELSE IF data = DONE
    THEN [st EXCEPT !.messages = SetDone2(@, st.temp, st.sources),
                    !.srcWrites = IF st.messages # <<>> THEN @ + 1 ELSE @,
                    !.brk = TRUE]
  ELSE LET t == AppendContent(st.temp, data)
       IN  [st EXCEPT !.temp = t, !.messages = SetContent2(@, t)]

RECURSIVE ForLines(_, _, _)
ForLines(a, lines, st) ==
  IF lines = <<>> \/ st.brk \/ st.threw THEN st
  ELSE IF IsSkipped(Head(lines)) THEN ForLines(a, Tail(lines), st)
  ELSE LET logged == [st EXCEPT !.log = Append(@, Head(lines))]
       IN  ForLines(a, Tail(lines),
                    IF a = 1 THEN Frame1(logged, Head(lines)) ELSE Frame2(logged, Head(lines)))

\* One iteration of while (true) on a chunk that reader.read() delivered.
ProcessChunk(a, value, st) ==
  ForLines(a, Split(Decode(value)), [st EXCEPT !.brk = FALSE])

----------------------------------------------------------------------------
\* The state.

VARIABLES
  app,              \* 1: the first App of the file, 2: the second
  stream,           \* the bytes of the response body of /api/chat/stream
  rest,             \* the bytes reader.read() has not delivered yet
  nchunks,          \* the number of chunks delivered
  pc,               \* where handleSubmit stands
  input,            \* React state
  isLoading,        \* React state
  error,            \* React state
  messages,         \* React state
  currentChatId,    \* React state
  chatIdSeen,       \* currentChatId as the closure of handleSubmit sees it
  updatedMessages,  \* local of handleSubmit
  tempResponse,     \* local of handleSubmit
  sources,          \* local of handleSubmit
  reqs,             \* the requests sent to the backend, in order
  log,              \* the frames the loop body has processed, in order
  srcWrites,        \* writes of the sources of the assistant message
  fault,            \* the failure the environment has injected, if any
  load,             \* where loadChatHistory or startNewChat stands
  clicks,           \* the clicks on the sidebar and on the new-chat button
  second,           \* where a second handleSubmit stands
  switched          \* the user changed the conversation while the stream was read

vars == <<app, stream, rest, nchunks, pc, input, isLoading, error, messages,
          currentChatId, chatIdSeen, updatedMessages, tempResponse, sources,
          reqs, log, srcWrites, fault, load, clicks, second, switched>>

\* The state of the handlers other than the first handleSubmit.
uiVars == <<load, clicks, second, switched>>

\* The locals of the first handleSubmit and the body it reads.
streamVars == <<app, stream, rest, nchunks, pc, chatIdSeen, updatedMessages,
                tempResponse, sources, log, srcWrites, fault>>

\* No click on the sidebar or on the new-chat button yet.
NoClick == [n |-> 0, kind |-> "none", target |-> NoChat]

\* No loadChatHistory and no startNewChat is under way.
LoadIdle == [pc |-> "idle", target |-> NoChat, saved |-> FALSE, result |-> "none"]

\* The lines a response body of the model is made of.
ContentA == MARKER \o <<"a">>
ContentB == MARKER \o <<"b">>
ContentAccent == MARKER \o <<"C3", "A9">>
DoneLine == MARKER \o DONE
SourcesLine == MARKER \o SOURCES_OPEN \o <<"[", "1", ",", "2", "]">> \o SOURCES_CLOSE
BadSourcesLine == MARKER \o SOURCES_OPEN \o <<"x">> \o SOURCES_CLOSE
ErrorLine == MARKER \o ERROR_OPEN \o <<"e">> \o ERROR_CLOSE
BlankLine == <<>>
CommentLine == <<":">>

BodyLines ==
  {ContentA, ContentB, ContentAccent, DoneLine, SourcesLine, BadSourcesLine,
   ErrorLine, BlankLine, CommentLine}

\* Every line of a body ends with a newline.
BodyOf(ls) == Flatten([i \in 1..Len(ls) |-> Append(ls[i], NL)])

\* Bodies of three lines: the example of the spec, and a frame before and
\* after each kind of control frame.
ThreeLineBodies ==
  {<<ContentA, SourcesLine, DoneLine>>,
   <<ContentA, ContentB, DoneLine>>,
   <<ContentA, DoneLine, ContentB>>,
   <<ContentA, ErrorLine, ContentB>>,
   <<ContentA, BadSourcesLine, DoneLine>>}

\* The response bodies: every body of one line, every body of two lines, and
\* the bodies of three lines above.
Bodies ==
  {BodyOf(<<l>>) : l \in BodyLines}
    \cup {BodyOf(<<l[1], l[2]>>) : l \in BodyLines \X BodyLines}
    \cup {BodyOf(ls) : ls \in ThreeLineBodies}

NewChatId == 2

\* A conversation already on screen, saved under chat id 1.
PriorMessages ==
  <<Msg("user", <<"p">>, Undefined), Msg("assistant", <<"r">>, <<>>)>>

\* What the input field holds at the start: a question, or blanks only.
Inputs == {<<" ", "q", " ">>, <<" ">>}

Init ==
  /\ app \in {1, 2}
  /\ stream \in Bodies
  /\ rest = stream
  /\ nchunks = 0
  /\ pc = "idle"
  /\ input \in Inputs
  /\ isLoading = FALSE
  /\ error = ErrNull
  /\ currentChatId \in {NoChat, 1}
  /\ messages = IF currentChatId = NoChat THEN <<>> ELSE PriorMessages
  /\ chatIdSeen = NoChat
  /\ updatedMessages = <<>>
  /\ tempResponse = <<>>
  /\ sources = <<>>
  /\ reqs = <<>>
  /\ log = <<>>
  /\ srcWrites = 0
  /\ fault = "none"
  /\ load = LoadIdle
  /\ clicks = NoClick
  /\ second = [pc |-> "idle", seen |-> <<>>]
  /\ switched = FALSE

----------------------------------------------------------------------------
\* Requests.

HistoryPost(msgs) == [op |-> "POST /api/history", chat |-> NoChat, msgs |-> msgs]
HistoryPut(id, msgs) == [op |-> "PUT /api/history/id", chat |-> id, msgs |-> msgs]
StreamPost(history) == [op |-> "POST /api/chat/stream", chat |-> NoChat, msgs |-> history]

\* history: updatedMessages.map(msg => ({role: msg.role, content: msg.content}))
StripSources(msgs) == [i \in 1..Len(msgs) |-> Msg(msgs[i].role, msgs[i].content, Undefined)]

\* catch of the first App (lines 319-325) and of the second (lines 993-995),
\* for an error that is not an axios error.
CatchError(a) == IF a = 1 THEN ErrUnknown ELSE ErrRetryLater

----------------------------------------------------------------------------
\* handleSubmit, one action per stretch of code between two awaits.

\* newMessage (first App), userMessage (second App)
NewMessage == Msg("user", Trim(input), Undefined)

\* The messages the closure of the first App captured: until the response of
\* the stream request arrives, updatedMessages holds [...messages, newMessage].
ClosureMessages == SubSeq(updatedMessages, 1, Len(updatedMessages) - 1)

\* A finalMessages that attached a source of its own.
FinalMessages_OwnSource == updatedMessages \o <<Msg("assistant", tempResponse, <<1>>)>>

\* finalMessages of the second App
FinalMessages == updatedMessages \o <<Msg("assistant", tempResponse, sources)>>

\* First App: from the entry to the first await.
Submit1 ==
  /\ app = 1
  /\ pc = "idle"
  /\ Trim(input) # <<>>
  /\ input' = <<>>
  /\ isLoading' = TRUE
  /\ error' = ErrNull
  /\ chatIdSeen' = currentChatId
  /\ updatedMessages' = messages \o <<NewMessage>>
  /\ IF currentChatId = NoChat
       THEN /\ pc' = "create"
            /\ reqs' = Append(reqs, HistoryPost(<<NewMessage>>))
       ELSE /\ pc' = "fetch"
            /\ reqs' = Append(reqs, StreamPost(messages))
  /\ UNCHANGED <<uiVars, app, stream, rest, nchunks, messages, currentChatId, tempResponse,
                 sources, log, srcWrites, fault>>

\* First App: POST /api/history answered; the stream request is sent.
CreateHistoryOk ==
  /\ app = 1
  /\ pc = "create"
  /\ currentChatId' = NewChatId
  /\ reqs' = Append(reqs, StreamPost(ClosureMessages))
  /\ pc' = "fetch"
  /\ UNCHANGED <<uiVars, app, stream, rest, nchunks, input, isLoading, error, messages,
                 chatIdSeen, updatedMessages, tempResponse, sources, log, srcWrites,
                 fault>>

\* First App: POST /api/history failed, an axios error.
CreateHistoryFail ==
  /\ app = 1
  /\ pc = "create"
  /\ error' = ErrChatRequest(<<"m">>)
  /\ isLoading' = FALSE
  /\ pc' = "done"
  /\ fault' = "history"
  /\ UNCHANGED <<uiVars, app, stream, rest, nchunks, input, messages, currentChatId,
                 chatIdSeen, updatedMessages, tempResponse, sources, reqs, log,
                 srcWrites>>

\* Second App: from the entry to the first await.
Submit2 ==
  /\ app = 2
  /\ pc = "idle"
  /\ Trim(input) # <<>>
  /\ ~isLoading
  /\ isLoading' = TRUE
  /\ error' = ErrNull
  /\ updatedMessages' = messages \o <<NewMessage>>
  /\ messages' = updatedMessages' \o <<Msg("assistant", <<>>, Undefined)>>
  /\ input' = <<>>
  /\ tempResponse' = <<>>
  /\ sources' = <<>>
  /\ chatIdSeen' = currentChatId
  /\ reqs' = Append(reqs, StreamPost(StripSources(updatedMessages')))
  /\ pc' = "fetch"
  /\ UNCHANGED <<uiVars, app, stream, rest, nchunks, currentChatId, log, srcWrites, fault>>

\* The stream request is answered with an OK status and a body.
FetchOk ==
  /\ pc = "fetch"
  /\ IF app = 1
       THEN /\ updatedMessages' = updatedMessages \o <<Msg("assistant", <<>>, <<>>)>>
            /\ messages' = updatedMessages'
            /\ tempResponse' = <<>>
            /\ sources' = <<>>
       ELSE UNCHANGED <<updatedMessages, messages, tempResponse, sources>>
  /\ pc' = "read"
  /\ UNCHANGED <<uiVars, app, stream, rest, nchunks, input, isLoading, error, currentChatId,
                 chatIdSeen, reqs, log, srcWrites, fault>>

\* The stream request is answered with an OK status and no body.
FetchNoBody ==
  /\ pc = "fetch"
  /\ IF app = 1
       THEN /\ updatedMessages' = updatedMessages \o <<Msg("assistant", <<>>, <<>>)>>
            /\ messages' = updatedMessages'
       ELSE UNCHANGED <<updatedMessages, messages>>
  /\ error' = CatchError(app)
  /\ isLoading' = FALSE
  /\ pc' = "done"
  /\ fault' = "body"
  /\ UNCHANGED <<uiVars, app, stream, rest, nchunks, input, currentChatId, chatIdSeen,
                 tempResponse, sources, reqs, log, srcWrites>>

\* A handler that sent the stream request again after a failure.
FetchFail_Retry ==
  /\ pc = "fetch"
  /\ \E f \in {"net", "http"} : fault' = f
  /\ error' = CatchError(app)
  /\ reqs' = Append(reqs, StreamPost(<<>>))
  /\ pc' = "fetch"
  /\ UNCHANGED <<uiVars, app, stream, rest, nchunks, input, isLoading, messages,
                 currentChatId, chatIdSeen, updatedMessages, tempResponse, sources,
                 log, srcWrites>>

\* The stream request fails or is answered with a status that is not OK.
FetchFail ==
  /\ pc = "fetch"
  /\ \E f \in {"net", "http"} : fault' = f
  /\ error' = CatchError(app)
  /\ isLoading' = FALSE
  /\ pc' = "done"
  /\ UNCHANGED <<uiVars, app, stream, rest, nchunks, input, messages, currentChatId,
                 chatIdSeen, updatedMessages, tempResponse, sources, reqs, log,
                 srcWrites>>

LoopState ==
  [temp |-> tempResponse, sources |-> sources, messages |-> messages,
   error |-> error, log |-> log, srcWrites |-> srcWrites,
   brk |-> FALSE, threw |-> FALSE]

\* First App: the updaters assign to the fields of lastMessage, which is the
\* object assistantMessage that updatedMessages holds as well, as long as the
\* displayed list is the one handleSubmit has set.
AliasLast(local, msgs) ==
  IF local # <<>> /\ msgs # <<>>
    THEN [local EXCEPT ![Len(local)] = msgs[Len(msgs)]]
    ELSE local

\* reader.read() delivers the next k bytes, and the loop body runs on them.
ReadChunk ==
  /\ pc = "read"
  /\ rest # <<>>
  /\ \E k \in 1..Len(rest) :
       /\ nchunks + 1 < MaxChunks \/ k = Len(rest)
       /\ LET st == ProcessChunk(app, SubSeq(rest, 1, k), LoopState) IN
            /\ rest' = SubSeq(rest, k + 1, Len(rest))
            /\ tempResponse' = st.temp
            /\ sources' = st.sources
            /\ messages' = st.messages
            /\ log' = st.log
            /\ srcWrites' = st.srcWrites
            /\ updatedMessages' =
                 IF app = 1 /\ messages = updatedMessages
                   THEN AliasLast(updatedMessages, st.messages)
                   ELSE updatedMessages
            /\ IF st.threw
                 THEN /\ error' = CatchError(app)
                      /\ isLoading' = FALSE
                      /\ pc' = "done"
                 ELSE /\ error' = st.error
                      /\ isLoading' = isLoading
                      /\ pc' = "read"
  /\ nchunks' = nchunks + 1
  /\ UNCHANGED <<uiVars, app, stream, input, currentChatId, chatIdSeen, reqs, fault>>

\* A handler that returned without saving after an [ERROR] frame.
ReadDone_ErrorSkipsSave ==
  /\ pc = "read"
  /\ rest = <<>>
  /\ IF app = 1
       THEN IF chatIdSeen # NoChat
              THEN /\ reqs' = Append(reqs, HistoryPut(chatIdSeen, updatedMessages))
                   /\ pc' = "save"
                   /\ isLoading' = isLoading
              ELSE /\ reqs' = reqs
                   /\ pc' = "done"
                   /\ isLoading' = FALSE
       ELSE IF error # ErrNull
              THEN /\ reqs' = reqs
                   /\ pc' = "done"
                   /\ isLoading' = FALSE
              ELSE /\ reqs' = Append(reqs, IF chatIdSeen = NoChat
                                             THEN HistoryPost(FinalMessages)
                                             ELSE HistoryPut(chatIdSeen, FinalMessages))
                   /\ pc' = "save"
                   /\ isLoading' = isLoading
  /\ UNCHANGED <<uiVars, app, stream, rest, nchunks, input, error, messages, currentChatId,
                 chatIdSeen, updatedMessages, tempResponse, sources, log, srcWrites,
                 fault>>

\* reader.read() reports done: the loop ends and the conversation is saved.
ReadDone ==
  /\ pc = "read"
  /\ rest = <<>>
  /\ IF app = 1
       THEN IF chatIdSeen # NoChat
              THEN /\ reqs' = Append(reqs, HistoryPut(chatIdSeen, updatedMessages))
                   /\ pc' = "save"
                   /\ isLoading' = isLoading
              ELSE /\ reqs' = reqs
                   /\ pc' = "done"
                   /\ isLoading' = FALSE
       ELSE /\ reqs' = Append(reqs, IF chatIdSeen = NoChat
                                      THEN HistoryPost(FinalMessages)
                                      ELSE HistoryPut(chatIdSeen, FinalMessages))
            /\ pc' = "save"
            /\ isLoading' = isLoading
  /\ UNCHANGED <<uiVars, app, stream, rest, nchunks, input, error, messages, currentChatId,
                 chatIdSeen, updatedMessages, tempResponse, sources, log, srcWrites,
                 fault>>

\* A handler that went on reading after reader.read() rejected.
ReadFail_Continue ==
  /\ pc = "read"
  /\ error' = CatchError(app)
  /\ fault' = "read"
  /\ UNCHANGED <<uiVars, app, stream, rest, nchunks, pc, input, isLoading, messages,
                 currentChatId, chatIdSeen, updatedMessages, tempResponse, sources,
                 reqs, log, srcWrites>>

\* reader.read() rejects.
ReadFail ==
  /\ pc = "read"
  /\ error' = CatchError(app)
  /\ isLoading' = FALSE
  /\ pc' = "done"
  /\ fault' = "read"
  /\ UNCHANGED <<uiVars, app, stream, rest, nchunks, input, messages, currentChatId,
                 chatIdSeen, updatedMessages, tempResponse, sources, reqs, log,
                 srcWrites>>

\* The history request after the loop is answered; the list of conversations
\* is fetched again (fetchChatHistories swallows its own failure).
SaveOk ==
  /\ pc = "save"
  /\ reqs' = Append(reqs, [op |-> "GET /api/history", chat |-> NoChat, msgs |-> <<>>])
  /\ IF app = 1
       THEN UNCHANGED <<messages, currentChatId, srcWrites>>
       ELSE /\ currentChatId' = IF chatIdSeen = NoChat THEN NewChatId ELSE currentChatId
            /\ messages' = FinalMessages
            /\ srcWrites' = srcWrites + 1
  /\ isLoading' = FALSE
  /\ pc' = "done"
  /\ UNCHANGED <<uiVars, app, stream, rest, nchunks, input, error, chatIdSeen,
                 updatedMessages, tempResponse, sources, log, fault>>

\* A handler whose failed history request left isLoading set.
SaveFail_StillLoading ==
  /\ pc = "save"
  /\ IF app = 1
       THEN /\ error' = ErrUpdateFailed
            /\ UNCHANGED <<messages, srcWrites>>
       ELSE /\ error' = ErrSaveFailed
            /\ messages' = FinalMessages
            /\ srcWrites' = srcWrites + 1
  /\ pc' = "done"
  /\ fault' = "save"
  /\ UNCHANGED <<uiVars, app, stream, rest, nchunks, input, isLoading, currentChatId, chatIdSeen,
                 updatedMessages, tempResponse, sources, reqs, log>>

\* The history request after the loop fails; both Apps catch it on the spot.
SaveFail ==
  /\ pc = "save"
  /\ IF app = 1
       THEN /\ error' = ErrUpdateFailed
            /\ UNCHANGED <<messages, srcWrites>>
       ELSE /\ error' = ErrSaveFailed
            /\ messages' = FinalMessages
            /\ srcWrites' = srcWrites + 1
  /\ isLoading' = FALSE
  /\ pc' = "done"
  /\ fault' = "save"
  /\ UNCHANGED <<uiVars, app, stream, rest, nchunks, input, currentChatId, chatIdSeen,
                 updatedMessages, tempResponse, sources, reqs, log>>

Next ==
  \/ Submit1
  \/ CreateHistoryOk
  \/ CreateHistoryFail
  \/ Submit2
  \/ FetchOk
  \/ FetchNoBody
  \/ FetchFail
  \/ ReadChunk
  \/ ReadDone
  \/ ReadFail
  \/ SaveOk
  \/ SaveFail

Spec == Init /\ [][Next]_vars

\* ---------------------------------------------------------------------------
\* The other handlers the user can start while handleSubmit is suspended at an
\* await: loadChatHistory, startNewChat, typing, and a second handleSubmit.
\* ---------------------------------------------------------------------------

\* The user clicks at most this many times on the sidebar and the new-chat
\* button.
MaxClicks == 1

ErrLoadFailed == [kind |-> "loading history failed", detail |-> NoDetail]
ErrNewChatFailed == [kind |-> "creating chat failed", detail |-> NoDetail]

\* A second conversation of the sidebar, and the id the backend gives to the
\* conversation startNewChat creates.
OtherChatId == 3
FreshChatId == 4
OtherMessages ==
  <<Msg("user", <<"o">>, Undefined), Msg("assistant", <<"s">>, Undefined)>>

\* The conversations the sidebar lists.
Targets == {1, OtherChatId}

HistoryGet(id) == [op |-> "GET /api/history/id", chat |-> id, msgs |-> <<>>]
HistoryList == [op |-> "GET /api/history", chat |-> NoChat, msgs |-> <<>>]

\* What the backend holds for a conversation: the last update sent for it, or
\* what it held at the start.
ServerMessages(id) ==
  LET w == SelectSeq(reqs, LAMBDA r : r.op = "PUT /api/history/id" /\ r.chat = id)
  IN  IF w # <<>> THEN w[Len(w)].msgs
      ELSE IF id = 1 THEN PriorMessages ELSE OtherMessages

\* First App: sources: msg.sources || [].
FormatMessages(msgs) ==
  [i \in 1..Len(msgs) |->
     Msg(msgs[i].role, msgs[i].content,
         IF msgs[i].sources = Undefined THEN <<>> ELSE msgs[i].sources)]

\* The count of the clicks so far, and what the last one was on.
Click(kind, t) == [n |-> clicks.n + 1, kind |-> kind, target |-> t]

\* The conversation on screen is replaced while the stream is being read.
Replaced == switched \/ pc = "read"

\* First App: loadChatHistory from the click to the await of the GET.
LoadStart1 ==
  /\ app = 1
  /\ load.pc = "idle"
  /\ clicks.n < MaxClicks
  /\ \E t \in Targets :
       /\ clicks' = Click("load", t)
       /\ load' = [pc |-> "getting", target |-> t, saved |-> FALSE, result |-> "none"]
       /\ reqs' = Append(reqs, HistoryGet(t))
  /\ isLoading' = TRUE
  /\ UNCHANGED <<streamVars, input, error, messages, currentChatId, second, switched>>

\* Second App: loadChatHistory from the click to its first await, or to its
\* return when the clicked conversation is the current one.
LoadStart2_NoAwait ==
  /\ app = 2
  /\ load.pc = "idle"
  /\ clicks.n < MaxClicks
  /\ \E t \in Targets :
       /\ clicks' = Click("load", t)
       /\ IF t = currentChatId
            THEN /\ isLoading' = FALSE
                 /\ UNCHANGED <<load, reqs>>
            ELSE /\ isLoading' = TRUE
                 /\ IF currentChatId # NoChat /\ messages # <<>>
                      THEN /\ reqs' = reqs \o <<HistoryPut(currentChatId, messages),
                                                 HistoryGet(t)>>
                           /\ load' = [pc |-> "getting", target |-> t,
                                       saved |-> TRUE, result |-> "none"]
                      ELSE /\ reqs' = Append(reqs, HistoryGet(t))
                           /\ load' = [pc |-> "getting", target |-> t,
                                       saved |-> FALSE, result |-> "none"]
  /\ UNCHANGED <<streamVars, input, error, messages, currentChatId, second, switched>>

LoadStart2 ==
  /\ app = 2
  /\ load.pc = "idle"
  /\ clicks.n < MaxClicks
  /\ \E t \in Targets :
       /\ clicks' = Click("load", t)
       /\ IF t = currentChatId
            THEN /\ isLoading' = FALSE
                 /\ UNCHANGED <<load, reqs>>
            ELSE /\ isLoading' = TRUE
                 /\ IF currentChatId # NoChat /\ messages # <<>>
                      THEN /\ reqs' = Append(reqs, HistoryPut(currentChatId, messages))
                           /\ load' = [pc |-> "saving", target |-> t,
                                       saved |-> TRUE, result |-> "none"]
                      ELSE /\ reqs' = Append(reqs, HistoryGet(t))
                           /\ load' = [pc |-> "getting", target |-> t,
                                       saved |-> FALSE, result |-> "none"]
  /\ UNCHANGED <<streamVars, input, error, messages, currentChatId, second, switched>>

\* Second App: saveOrUpdateChatHistory inside loadChatHistory returns after its
\* PUT and the refresh of the list; the GET of the selected conversation is sent.
LoadSaveOk ==
  /\ app = 2
  /\ load.pc = "saving"
  /\ reqs' = reqs \o <<HistoryList, HistoryGet(load.target)>>
  /\ load' = [load EXCEPT !.pc = "getting"]
  /\ UNCHANGED <<streamVars, input, isLoading, error, messages, currentChatId,
                 clicks, second, switched>>

\* Second App: the PUT fails; saveOrUpdateChatHistory catches it and returns.
LoadSaveFail ==
  /\ app = 2
  /\ load.pc = "saving"
  /\ error' = ErrSaveFailed
  /\ reqs' = Append(reqs, HistoryGet(load.target))
  /\ load' = [load EXCEPT !.pc = "getting"]
  /\ UNCHANGED <<streamVars, input, isLoading, messages, currentChatId, clicks,
                 second, switched>>

\* The GET of the selected conversation is answered.
LoadGetOk ==
  /\ load.pc = "getting"
  /\ IF app = 1
       THEN /\ messages' = FormatMessages(ServerMessages(load.target))
            /\ error' = ErrNull
       ELSE /\ messages' = ServerMessages(load.target)
            /\ UNCHANGED error
  /\ currentChatId' = load.target
  /\ isLoading' = FALSE
  /\ load' = [load EXCEPT !.pc = "idle", !.result = "ok"]
  /\ switched' = Replaced
  /\ UNCHANGED <<streamVars, input, reqs, clicks, second>>

\* The GET of the selected conversation fails.
LoadGetFail ==
  /\ load.pc = "getting"
  /\ error' = ErrLoadFailed
  /\ isLoading' = FALSE
  /\ load' = [load EXCEPT !.pc = "idle", !.result = "failed"]
  /\ UNCHANGED <<streamVars, input, messages, currentChatId, reqs, clicks, second,
                 switched>>

\* First App: startNewChat from the click to the await of its POST.
NewChat1 ==
  /\ app = 1
  /\ load.pc = "idle"
  /\ clicks.n < MaxClicks
  /\ clicks' = Click("new", NoChat)
  /\ messages' = <<>>
  /\ error' = ErrNull
  /\ currentChatId' = NoChat
  /\ reqs' = Append(reqs, HistoryPost(<<>>))
  /\ load' = [pc |-> "creating", target |-> NoChat, saved |-> FALSE, result |-> "none"]
  /\ switched' = Replaced
  /\ UNCHANGED <<streamVars, input, isLoading, second>>

\* First App: the POST of startNewChat is answered; the list is refreshed.
NewChatCreated ==
  /\ app = 1
  /\ load.pc = "creating"
  /\ currentChatId' = FreshChatId
  /\ reqs' = Append(reqs, HistoryList)
  /\ load' = [load EXCEPT !.pc = "idle", !.result = "ok"]
  /\ UNCHANGED <<streamVars, input, isLoading, error, messages, clicks, second,
                 switched>>

\* First App: the POST of startNewChat fails.
NewChatFailed ==
  /\ app = 1
  /\ load.pc = "creating"
  /\ error' = ErrNewChatFailed
  /\ load' = [load EXCEPT !.pc = "idle", !.result = "failed"]
  /\ UNCHANGED <<streamVars, input, isLoading, messages, currentChatId, reqs, clicks,
                 second, switched>>

\* Second App: startNewChat, which has no await.
NewChat2 ==
  /\ app = 2
  /\ clicks.n < MaxClicks
  /\ clicks' = Click("new", NoChat)
  /\ messages' = <<>>
  /\ currentChatId' = NoChat
  /\ input' = <<>>
  /\ error' = ErrNull
  /\ switched' = Replaced
  /\ UNCHANGED <<streamVars, isLoading, reqs, load, second>>

\* The question the user types for a second handleSubmit.
NextMessage == Msg("user", <<"q">>, Undefined)

\* The user types the next question and submits it: a handleSubmit that is
\* entered after the first one, from its entry to its first await. The input
\* field and the send button are disabled while isLoading in both Apps.
SubmitAgain ==
  /\ pc # "idle"
  /\ second.pc = "idle"
  /\ ~isLoading
  /\ isLoading' = TRUE
  /\ error' = ErrNull
  /\ input' = <<>>
  /\ IF app = 1
       THEN /\ UNCHANGED messages
            /\ IF currentChatId = NoChat
                 THEN /\ reqs' = Append(reqs, HistoryPost(<<NextMessage>>))
                      /\ second' = [pc |-> "create", seen |-> messages]
                 ELSE /\ reqs' = Append(reqs, StreamPost(messages))
                      /\ second' = [pc |-> "fetch", seen |-> messages]
       ELSE /\ messages' = messages \o <<NextMessage, Msg("assistant", <<>>, Undefined)>>
            /\ reqs' = Append(reqs, StreamPost(StripSources(messages \o <<NextMessage>>)))
            /\ second' = [pc |-> "fetch", seen |-> messages]
  /\ UNCHANGED <<streamVars, currentChatId, load, clicks, switched>>

\* The entry guard of handleSubmit: if (!input.trim()) return, and in the
\* second App if (!input.trim() || isLoading) return.
PassesGuard(a, inp, loading) == Trim(inp) # <<>> /\ (a = 2 => ~loading)

\* A handler that cleared the input field before it looked at the guard.
SubmitRefused_ClearsInput ==
  /\ second.pc = "idle"
  /\ ~PassesGuard(app, input, isLoading)
  /\ input' = <<>>
  /\ second' = [pc |-> "refused", seen |-> messages]
  /\ UNCHANGED <<streamVars, isLoading, error, messages, currentChatId, reqs,
                 load, clicks, switched>>

\* handleSubmit is entered and returns at its guard.
SubmitRefused ==
  /\ second.pc = "idle"
  /\ ~PassesGuard(app, input, isLoading)
  /\ second' = [pc |-> "refused", seen |-> messages]
  /\ UNCHANGED <<streamVars, input, isLoading, error, messages, currentChatId, reqs,
                 load, clicks, switched>>

\* First App: the POST /api/history of the second handleSubmit is answered and
\* its stream request is sent. The second handleSubmit is followed no further.
SecondCreateOk ==
  /\ app = 1
  /\ second.pc = "create"
  /\ currentChatId' = FreshChatId
  /\ reqs' = Append(reqs, StreamPost(second.seen))
  /\ second' = [second EXCEPT !.pc = "fetch"]
  /\ UNCHANGED <<streamVars, input, isLoading, error, messages, load, clicks, switched>>

\* The bodies the stream request is answered with when the user acts meanwhile.
UIBodies == {BodyOf(<<ContentA>>), BodyOf(<<ContentB>>)}

InitUI == Init /\ stream \in UIBodies

NextUI ==
  \/ Next
  \/ LoadStart1
  \/ LoadStart2
  \/ LoadSaveOk
  \/ LoadSaveFail
  \/ LoadGetOk
  \/ LoadGetFail
  \/ NewChat1
  \/ NewChatCreated
  \/ NewChatFailed
  \/ NewChat2
  \/ SubmitAgain
  \/ SubmitRefused
  \/ SecondCreateOk

SpecUI == InitUI /\ [][NextUI]_vars

----------------------------------------------------------------------------
\* The stream protocol, as the properties refer to it.

\* The lines of the whole body and, of these, the frames.
StreamLines == Split(Decode(stream))
StreamFrames == SelectSeq(StreamLines, LAMBDA l : ~IsSkipped(l))

\* The text of a frame that follows the event marker 'data: '.
FrameText(f) == Slice(f, Len(MARKER))

IsDoneFrame(f) == FrameText(f) = DONE
IsErrorFrame(f) == StartsWith(FrameText(f), ERROR_OPEN)
IsGoodSources(f) == IsSourcesFrame(FrameText(f)) /\ JSONParse(SourcesJson(FrameText(f))).ok
IsBadSources(f) == IsSourcesFrame(FrameText(f)) /\ ~JSONParse(SourcesJson(FrameText(f))).ok
IsContentFrame(f) == ~IsSourcesFrame(FrameText(f)) /\ ~IsDoneFrame(f) /\ ~IsErrorFrame(f)

DoneProcessed == \E i \in DOMAIN log : IsDoneFrame(log[i])
ErrorProcessed == \E i \in DOMAIN log : IsErrorFrame(log[i])

\* The loop has ended because reader.read() reported done.
StreamEnded == pc = "save" \/ (pc = "done" /\ app = 1 /\ fault = "none")

LastMessage == messages[Len(messages)]

RECURSIVE IsSubseq(_, _)
IsSubseq(s, t) ==
  IF s = <<>> THEN TRUE
  ELSE IF t = <<>> THEN FALSE
  ELSE IF Head(s) = Head(t) THEN IsSubseq(Tail(s), Tail(t))
  ELSE IsSubseq(s, Tail(t))

\* What the loop body assembles when the whole body arrives as one chunk.
OneChunkContent ==
  ProcessChunk(app, stream,
               [temp |-> <<>>, sources |-> <<>>, messages |-> <<>>, error |-> ErrNull,
                log |-> <<>>, srcWrites |-> 0, brk |-> FALSE, threw |-> FALSE]).temp

\* C1: when the stream has ended, the assembled content is the content that
\* the same body assembles as a single chunk, wherever the chunk boundaries
\* fell.
C1_ChunkBoundaryIndependent == StreamEnded => tempResponse = OneChunkContent

\* C2: a frame that spans two chunks is processed once, as the whole frame:
\* the frames the loop has processed are whole frames of the body, in the
\* order of the body, and when a body without [DONE] and [ERROR] has ended
\* every one of its frames has been processed.
C2_PartialLineJoined ==
  /\ IsSubseq(log, StreamFrames)
  /\ (StreamEnded /\ \A i \in DOMAIN StreamFrames :
                        ~IsDoneFrame(StreamFrames[i]) /\ ~IsErrorFrame(StreamFrames[i]))
       => log = StreamFrames

\* C3: once a [DONE] frame has been processed no further chunk is read and
\* the content buffer, the sources and the displayed messages stay as they are.
C3_DoneEndsStream ==
  [][DoneProcessed =>
       /\ nchunks' = nchunks
       /\ tempResponse' = tempResponse
       /\ sources' = sources
       /\ messages' = messages]_vars

\* C4: once an [ERROR] frame has been processed the error state is not null,
\* and the content buffer, the sources and the displayed messages stay as
\* they are.
C4_ErrorFrameStops ==
  /\ [](ErrorProcessed => error # ErrNull)
  /\ [][ErrorProcessed =>
          /\ tempResponse' = tempResponse
          /\ sources' = sources
          /\ messages' = messages]_vars

\* The body ends with a [DONE] frame that directly follows a well-formed
\* sources frame.
EndsSourcesThenDone ==
  /\ Len(StreamFrames) >= 2
  /\ IsDoneFrame(StreamFrames[Len(StreamFrames)])
  /\ IsGoodSources(StreamFrames[Len(StreamFrames) - 1])
  /\ \A i \in 1..(Len(StreamFrames) - 2) :
        ~IsDoneFrame(StreamFrames[i]) /\ ~IsErrorFrame(StreamFrames[i])
        /\ ~IsBadSources(StreamFrames[i])

SourcesX == JSONParse(SourcesJson(FrameText(StreamFrames[Len(StreamFrames) - 1]))).val

\* C5: handleSubmit has returned without a failure of the network, on a body
\* that ends with [DONE] after a well-formed sources frame X: the last message
\* is the assistant message, its sources are X and its content is the buffer.
C5_SourcesAttached ==
  (pc = "done" /\ fault = "none" /\ EndsSourcesThenDone) =>
     /\ LastIsAssistant(messages)
     /\ LastMessage.sources = SourcesX
     /\ LastMessage.content = tempResponse

\* The body ends with a [DONE] frame that directly follows a sources frame
\* whose inner text is not JSON, and holds no other control frame.
EndsBadSourcesThenDone ==
  /\ Len(StreamFrames) >= 2
  /\ IsDoneFrame(StreamFrames[Len(StreamFrames)])
  /\ IsBadSources(StreamFrames[Len(StreamFrames) - 1])
  /\ \A i \in 1..(Len(StreamFrames) - 2) : IsContentFrame(StreamFrames[i])

\* C6: handleSubmit has returned without a failure of the network, on a body
\* with a malformed sources frame followed by [DONE]: no error is shown, the
\* [DONE] frame has been processed and the assistant message has empty sources.
C6_BadSourcesNonFatal ==
  (pc = "done" /\ fault = "none" /\ EndsBadSourcesThenDone) =>
     /\ error = ErrNull
     /\ DoneProcessed
     /\ LastIsAssistant(messages)
     /\ LastMessage.sources = <<>>

\* The texts of the content frames among fs, in order.
RECURSIVE ContentTexts(_)
ContentTexts(fs) ==
  IF fs = <<>> THEN <<>>
  ELSE (IF IsContentFrame(Head(fs)) THEN FrameText(Head(fs)) ELSE <<>>)
         \o ContentTexts(Tail(fs))

\* C7: as long as the loop has processed whole frames of the body in order,
\* the buffer is exactly the texts of the content frames among them, and
\* after a content frame the content of the assistant message is the buffer.
C7_ContentVerbatim ==
  (pc = "read" /\ IsPrefix(log, StreamFrames)) =>
     /\ tempResponse = ContentTexts(log)
     /\ (log # <<>> /\ IsContentFrame(log[Len(log)]))
          => (LastIsAssistant(messages) /\ LastMessage.content = tempResponse)

\* The payloads the loop appended, from the frames it processed.
RECURSIVE AppendedPayloads(_, _)
AppendedPayloads(a, fs) ==
  IF fs = <<>> THEN <<>>
  ELSE (IF IsContent(a, Payload(a, Head(fs))) THEN <<Payload(a, Head(fs))>> ELSE <<>>)
         \o AppendedPayloads(a, Tail(fs))

\* C8: at every point the content buffer is the concatenation, in the order
\* received, of the content fragments of the frames processed so far.
C8_ReceiptOrder == tempResponse = Flatten(AppendedPayloads(app, log))

\* C8 witness: two different content fragments have been processed.
C8_Witness ==
  /\ pc = "read"
  /\ Len(AppendedPayloads(app, log)) = 2
  /\ AppendedPayloads(app, log)[1] # AppendedPayloads(app, log)[2]
  /\ tempResponse = Flatten(AppendedPayloads(app, log))

\* The assistant message of this handleSubmit exists and handleSubmit has
\* not returned.
Streaming == pc \in {"read", "save"} \/ (app = 2 /\ pc = "fetch")

\* C9: from the creation of the assistant message to the return of
\* handleSubmit every step leaves the content of the assistant message as it
\* was or extends it.
C9_ContentAppendOnly ==
  [][Streaming =>
       /\ LastIsAssistant(messages)
       /\ LastIsAssistant(messages')
       /\ IsPrefix(LastMessage.content, messages'[Len(messages')].content)]_vars

\* C9 witness: the content of the assistant message has grown twice.
C9_Witness ==
  /\ Streaming
  /\ LastIsAssistant(messages)
  /\ Len(log) = 2
  /\ Len(LastMessage.content) >= 2
  /\ LastMessage.content = tempResponse

\* C10: the sources of the assistant message are written at most once, and
\* before [DONE] the displayed assistant message carries no sources.
C10_SourcesOnceAtCompletion ==
  /\ srcWrites <= 1
  /\ (pc = "read" /\ ~DoneProcessed) =>
        (LastIsAssistant(messages) /\ LastMessage.sources \in {<<>>, Undefined})


----------------------------------------------------------------------------
\* The body holds content frames only.
ContentOnly ==
  /\ StreamFrames # <<>>
  /\ \A i \in DOMAIN StreamFrames : IsContentFrame(StreamFrames[i])

\* C11: handleSubmit has returned after the end of a stream of content frames
\* only: the sources of the assistant message are empty or undefined.
C11_NoDoneNoSources ==
  (pc = "done" /\ fault \in {"none", "save"} /\ ContentOnly) =>
     (LastIsAssistant(messages) /\ LastMessage.sources \in {<<>>, Undefined})

\* C11 witness: a stream of content frames only has ended and handleSubmit
\* has returned with the content it assembled.
C11_Witness ==
  /\ pc = "done"
  /\ fault = "none"
  /\ ContentOnly
  /\ tempResponse # <<>>
  /\ LastIsAssistant(messages)
  /\ LastMessage.content = tempResponse

\* C12: the bodies are valid UTF-8, so the buffer never holds the replacement
\* character: a character whose bytes lie in two chunks is decoded as itself.
C12_SplitCharacterDecoded ==
  \A i \in DOMAIN tempResponse : tempResponse[i] # "U+FFFD"

StreamPostCount ==
  Len(SelectSeq(reqs, LAMBDA r : r.op = "POST /api/chat/stream"))

\* C14: once reader.read() has failed, handleSubmit has returned with the
\* generic error and one stream request sent, and no further frame is
\* processed.
C14_ReadFailureAborts ==
  /\ [](fault = "read" =>
          /\ pc = "done"
          /\ error = CatchError(app)
          /\ StreamPostCount = 1)
  /\ [][fault = "read" =>
          /\ log' = log
          /\ tempResponse' = tempResponse
          /\ nchunks' = nchunks]_vars

\* C14 witness: the read failed after a frame had been processed.
C14_Witness == fault = "read" /\ log # <<>> /\ rest # <<>>

\* C15: once the stream request has failed or was answered with a status that
\* is not OK, an error is shown, no frame has been processed and the request
\* has been sent once.
C15_RequestFailureNoRetry ==
  fault \in {"net", "http"} =>
     /\ pc = "done"
     /\ error # ErrNull
     /\ log = <<>>
     /\ nchunks = 0
     /\ StreamPostCount = 1

\* C15 witness: the endpoint answered with a status that is not OK.
C15_Witness == fault = "http" /\ pc = "done" /\ error = CatchError(app)

\* A line of the protocol that is a frame: it is not blank and begins with
\* the event marker.
IsFrameLine(l) == Len(l) >= 6 /\ SubSeq(l, 1, 6) = <<"d", "a", "t", "a", ":", " ">>

\* The messages on screen when the loop starts: those shown before, the user
\* message and the empty assistant message.
StartMessages ==
  (IF chatIdSeen = NoChat THEN <<>> ELSE PriorMessages)
    \o <<Msg("user", <<"q">>, Undefined),
         Msg("assistant", <<>>, IF app = 1 THEN <<>> ELSE Undefined)>>

ReplayStart ==
  [temp |-> <<>>, sources |-> <<>>, messages |-> StartMessages, error |-> ErrNull,
   log |-> <<>>, srcWrites |-> 0, brk |-> FALSE, threw |-> FALSE]

\* The loop body applied to the given lines one after the other.
RECURSIVE Replay(_, _, _)
Replay(a, lines, st) ==
  IF lines = <<>> THEN st
  ELSE Replay(a, Tail(lines),
              IF a = 1 THEN Frame1(st, Head(lines)) ELSE Frame2(st, Head(lines)))

\* C16: a line that is blank or does not begin with the marker is not a
\* frame and changes nothing: every line the loop body has acted on begins
\* with the marker, and the buffer, the sources, the error state and the
\* displayed messages are what those lines alone produce, whatever other
\* lines the chunks held.
C16_NonFramesIgnored ==
  pc \in {"read", "save"} =>
     /\ \A i \in DOMAIN log : IsFrameLine(log[i])
     /\ \E st \in {Replay(app, log, ReplayStart)} :
          /\ tempResponse = st.temp
          /\ sources = st.sources
          /\ messages = st.messages
          /\ error = st.error

\* C16 witness: a chunk with a line without the marker and a frame has been
\* processed.
C16_Witness ==
  /\ stream = BodyOf(<<CommentLine, ContentA>>)
  /\ nchunks = 1
  /\ rest = <<>>
  /\ Len(log) = 1

\* The requests that write a history record.
HistoryWrites ==
  SelectSeq(reqs, LAMBDA r : r.op \in {"POST /api/history", "PUT /api/history/id"})

\* The user message of this handleSubmit.
SubmittedMessage == Msg("user", <<"q">>, Undefined)

\* handleSubmit has returned after a loop that ended without an exception,
\* and no request failed.
ReturnedNormally ==
  pc = "done" /\ fault = "none" /\ ~(app = 2 /\ error = ErrRetryLater)

\* C17: after a handleSubmit whose stream ended without an exception the last
\* history record written holds the user message and the assistant reply.
C17_ConversationSaved ==
  ReturnedNormally =>
     /\ HistoryWrites # <<>>
     /\ LET m == HistoryWrites[Len(HistoryWrites)].msgs IN
          /\ \E i \in DOMAIN m : m[i] = SubmittedMessage
          /\ LastIsAssistant(m)
          /\ m[Len(m)].content = tempResponse

\* The first handleSubmit has passed its guard and has not returned.
FirstRunning == pc \in {"create", "fetch", "read", "save"}

\* C13: no two streams run concurrently: whatever the user does meanwhile, a
\* second handleSubmit does not open a stream before the first one has
\* returned.
C13_OneStreamAtATime == ~(second.pc = "fetch" /\ FirstRunning)

\* A step of the first handleSubmit after its entry.
StreamStep == pc # "idle" /\ (pc' # pc \/ nchunks' # nchunks)

\* C18: once the user has loaded a conversation or started a new chat while
\* the stream is being read, no later step of that handleSubmit (content
\* fragment, [DONE] frame, end of stream) changes the displayed message list.
C18_StreamKeepsToItsMessage == [][(switched /\ StreamStep) => messages' = messages]_vars

\* Second App: the user clicks the conversation that is the current one.
SameChatClick ==
  /\ app = 2
  /\ clicks'.n = clicks.n + 1
  /\ clicks'.kind = "load"
  /\ clicks'.target = currentChatId

\* C19: in the second App a click on the current conversation sends no request
\* and leaves messages, currentChatId, error and isLoading as they were, also
\* while a stream is in progress.
C19_SameChatNoOp ==
  [][SameChatClick =>
       /\ reqs' = reqs
       /\ messages' = messages
       /\ currentChatId' = currentChatId
       /\ error' = error
       /\ isLoading' = isLoading]_vars

\* The step appends the GET of the selected conversation to the requests.
GetSent == Len(reqs') > Len(reqs) /\ reqs'[Len(reqs')] = HistoryGet(load'.target)

\* C20: in the second App loadChatHistory of another conversation, with
\* currentChatId set and messages not empty, sends the save of the current
\* conversation first and sends the GET only when the save has returned;
\* messages and currentChatId change in the step the GET succeeds and in no
\* other step of loadChatHistory; a failed GET leaves them and sets the error.
C20_SaveBeforeLoad ==
  [][(app = 2 /\ load' # load) =>
       /\ (load.pc = "idle" /\ currentChatId # NoChat /\ messages # <<>>) =>
             /\ reqs' = Append(reqs, HistoryPut(currentChatId, messages))
             /\ load'.pc = "saving"
       /\ (GetSent /\ load'.saved) => load.pc = "saving"
       /\ IF load.pc = "getting" /\ load'.result = "ok"
            THEN /\ messages' = ServerMessages(load.target)
                 /\ currentChatId' = load.target
            ELSE /\ messages' = messages
                 /\ currentChatId' = currentChatId
       /\ (load.pc = "getting" /\ load'.result = "failed") => error' = ErrLoadFailed]_vars

C20_Witness ==
  /\ app = 2
  /\ load = [pc |-> "idle", target |-> OtherChatId, saved |-> TRUE, result |-> "ok"]
  /\ currentChatId = OtherChatId
  /\ messages = OtherMessages
  /\ \E i \in DOMAIN reqs : reqs[i].op = "PUT /api/history/id" /\ reqs[i].chat = 1

\* The step in which the first handleSubmit returns.
Returns == pc # "done" /\ pc' = "done"

\* C21: every handleSubmit that passed its entry guard returns with isLoading
\* false, on every path: [DONE], end of stream without [DONE], [ERROR] frame,
\* non-OK status, missing body, read failure, failure of the history request.
C21_ReturnsNotLoading == [][Returns => isLoading' = FALSE]_vars

C21_Witness ==
  /\ pc = "done"
  /\ fault = "save"
  /\ log # <<>>
  /\ isLoading = FALSE

\* A handleSubmit is entered in this step and returns at its guard.
Refused == second.pc = "idle" /\ second'.pc = "refused"

\* C22: handleSubmit with an input that is empty or only whitespace, and in
\* the second App also with isLoading true, sends no request and leaves
\* messages, input, isLoading, error and currentChatId unchanged; handleSubmit
\* is refused for these two reasons only.
C22_BlankSubmitNoOp ==
  [][Refused =>
       /\ Trim(input) = <<>> \/ (app = 2 /\ isLoading)
       /\ reqs' = reqs
       /\ messages' = messages
       /\ input' = input
       /\ isLoading' = isLoading
       /\ error' = error
       /\ currentChatId' = currentChatId]_vars

C22_Witness ==
  /\ second.pc = "refused"
  /\ input = <<" ">>
  /\ reqs = <<>>
  /\ messages = second.seen

\* Second App: the read loop of handleSubmit ended without an exception and
\* handleSubmit has returned.
LoopEndedNormally ==
  /\ app = 2
  /\ pc = "done"
  /\ fault \in {"none", "save"}
  /\ error # ErrRetryLater

\* The messages on screen when the question was submitted.
PriorShown == IF chatIdSeen = NoChat THEN <<>> ELSE PriorMessages

\* The prior messages, the user message and one assistant message.
ShownAtEnd ==
  PriorShown \o <<SubmittedMessage, Msg("assistant", tempResponse, sources)>>

\* C23: in the second App, when the read loop ends without an exception,
\* exactly one save request is sent, with the prior messages plus the user
\* message plus one assistant message holding the assembled content and the
\* sources, and that list is displayed; the same after [DONE], after an
\* [ERROR] frame, and at end of stream with neither.
C23_SavedOnceAndShown ==
  LoopEndedNormally =>
     /\ Len(HistoryWrites) = 1
     /\ HistoryWrites[1].msgs = ShownAtEnd
     /\ HistoryWrites[1].chat = chatIdSeen
     /\ messages = ShownAtEnd

C23_Witness ==
  /\ LoopEndedNormally
  /\ ErrorProcessed
  /\ fault = "none"
  /\ tempResponse # <<>>
  /\ messages = ShownAtEnd

====
